---- MODULE Spec2Model ----
(***************************************************************************)
(* A model of the iSamples export client:                                  *)
(*   src/isamples_export_client/export_client.py                           *)
(* The state is one ExportClient object, the locals of one call of         *)
(* perform_full_download, the destination tree on disk and a clock.        *)
(* The remote export service is the environment: its responses are the     *)
(* inputs the actions draw with \E.                                        *)
(***************************************************************************)
EXTENDS Integers, Sequences, FiniteSets, TLC

(***************************************************************************)
(* Bounds of the model.                                                    *)
(***************************************************************************)
\* timestamps are 0..MaxClock; a timestamp names one wall-clock second
MaxClock == 3
\* calls of perform_full_download in one behaviour
MaxRuns == 2
\* created/started responses tolerated in one run before the model stops polling
MaxPolls == 2
\* the downloaded file has 0..MaxResults lines
MaxResults == 1
\* direct calls of write_manifest on one directory
MaxAppends == 2
\* concurrent writers of one manifest path, and the appends each of them makes
NumWriters == 2
MaxWriterAppends == 1
MaxCatalogWrites == 2
\* calls of string_to_enum in a row
MaxParses == 2
\* bytes of a downloaded payload
MaxPayload == 4
\* bytes of a served file, and bytes of a chunk of the range response
MaxFileSize == 5
MaxChunk == 3
\* tokens of a Range header
MaxHeader == 4

(***************************************************************************)
(* Program constants.                                                      *)
(***************************************************************************)
MaxErrors == 3
DefaultSleepTime == 5
\* iter_content(chunk_size=8192)
chunk_size == 8192

GEOPARQUET == "geoparquet"
SOLR_INDEX_UPDATED_TIME == "indexUpdatedTime"
\* Python's None, as a value that can be compared with the strings it stands beside
None == "<None>"
\* error_count before line 428 has run: the local does not exist yet
NoCounter == -1
\* a datetime that is None
NoTime == -1

Queries == {"material:rock", "source:SESAR"}
\* a URL is its sequence of tokens, so that endswith("/") and f"{url}create" are computed
Urls == {<<"http://host/export">>, <<"http://host/export", "/">>}
Formats == {"jsonl", "csv", GEOPARQUET}
SleepTimes == {0, DefaultSleepTime}
Root == <<>>
NoClient == [none |-> TRUE]
NoParams == [none |-> TRUE]

(***************************************************************************)
(* State.                                                                  *)
(***************************************************************************)
VARIABLES
    client,       \* the ExportClient object (NoClient before any is constructed)
    built,        \* ghost: how client was made: the format asked for, the manifest entry it was rebuilt from, after how many runs
    raised,       \* ghost: the exception the last operation left to its caller, or None
    pc,           \* "idle" | "loop" (inside while True) | "returned" | "raised"
    outcome,      \* ghost: how the last run ended: None | "success" | "job_error" | "abandoned"
    uuid,         \* local uuid of perform_full_download
    tstarted,     \* local tstarted
    error_count,  \* local error_count
    fs,           \* the filesystem: [dirs, files]
    clock,        \* the current wall-clock second
    jobs,         \* remote: number of export jobs created so far
    result_lines, \* remote: the number of lines of the current job's result file
    nruns,        \* calls of perform_full_download so far
    nCreate,      \* ghost, per run: create calls
    nStatus,      \* ghost, per run: status calls
    nPending,     \* ghost, per run: created/started responses
    nSleep,       \* ghost, per run: time.sleep calls
    nDownload,    \* ghost, per run: download calls
    nExc,         \* ghost, per run: exceptions raised in the loop body
    nPostExc,     \* ghost, per run: those raised after a successful download
    nManifest,    \* ghost, per run: manifest files written
    nItem,        \* ghost, per run: item documents written
    nCatalog,     \* ghost, per run: catalog documents written
    nParquet,     \* ghost, per run: calls of write_geoparquet_from_json_lines
    lastResp,     \* ghost: what the last status call returned
    streak,       \* ghost: consecutive created/started responses
    usedUuids,    \* ghost, per run: job identifiers sent in status and download calls
    submitted,    \* ghost: the params of the last create call
    nSuccess,     \* ghost: destination directory -> successful runs with it
    callLog,      \* ghost: manifest directory -> entries passed to write_manifest
    writers,      \* concurrent write_manifest calls: writer -> [pc, manifests, done]
    mode,         \* "serialized" | "concurrent": the callers' discipline
    pure          \* the function under test: its input, its progress and its result

runVars == <<pc, outcome, uuid, tstarted, error_count>>
ghostVars == <<nCreate, nStatus, nPending, nSleep, nDownload, nExc, nPostExc, nManifest, nItem,
               nCatalog, nParquet, lastResp, streak, usedUuids, submitted>>
concVars == <<writers, mode>>
vars == <<client, built, raised, runVars, fs, clock, jobs, result_lines, nruns, ghostVars,
          nSuccess, callLog, concVars, pure>>

(***************************************************************************)
(* Pure helpers.                                                           *)
(***************************************************************************)
\* datetime.strftime(SOLR_TIME_FORMAT): the digits of the time between fixed affixes
datetime_to_solr_format(dt) ==
    IF dt = NoTime THEN None ELSE "t" \o ToString(dt) \o ".000000Z"

\* current_time.strftime("%Y_%m_%d_%H_%M_%S"): one name per second
date_string(current_time) == "run_" \o ToString(current_time)

is_expected_response_code(code) == 200 <= code /\ code < 300

\* class ExportJobStatus(Enum), lines 60-64: the members in definition order
ExportJobStatusMembers ==
    << [name |-> "CREATED", value |-> "created"],
       [name |-> "STARTED", value |-> "started"],
       [name |-> "COMPLETED", value |-> "completed"],
       [name |-> "ERROR", value |-> "error"] >>

\* the strings the service uses for the four states
ExportJobStatus == {ExportJobStatusMembers[k].value : k \in 1..Len(ExportJobStatusMembers)}

\* lines 68-70 from member k on: the first member whose value is raw_string
RECURSIVE enum_scan(_, _)
enum_scan(raw_string, k) ==
    IF k > Len(ExportJobStatusMembers) THEN "ValueError"
    ELSE IF raw_string = ExportJobStatusMembers[k].value THEN ExportJobStatusMembers[k].name
    ELSE enum_scan(raw_string, k + 1)

\* mutant: the member looked up by name as well as by value
string_to_enum_ByName(raw_string) ==
    IF \E k \in 1..Len(ExportJobStatusMembers) : ExportJobStatusMembers[k].name = raw_string
    THEN raw_string
    ELSE enum_scan(raw_string, 1)

\* the name of the member whose .value is raw_string, or "ValueError" (line 71)
string_to_enum(raw_string) == enum_scan(raw_string, 1)

\* ExportJobStatus.<member>.value
enum_value(member) ==
    LET k == CHOOSE i \in 1..Len(ExportJobStatusMembers) :
                 ExportJobStatusMembers[i].name = member
    IN  ExportJobStatusMembers[k].value

\* json.dumps followed by json.load on lists of dicts of str/int/bool: the text
\* is a tagged copy of the value, and loading strips the tag
json_dumps(v) == <<"json", v>>
json_load(text) == text[2]

manifest_file_path(dir_path) == <<dir_path, "manifest.json">>
stac_item_path(dir_path) == <<dir_path, "stac.json">>
stac_catalog_path(dir_path) == <<dir_path, "stac.json">>

\* ExportClient.__init__, without the jwt and the session (they only reach headers)
ExportClient(query, destination_directory, export_server_url, format, collection_title, collection_description, refresh_date, sleep_time) ==
    [ max_errors |-> MaxErrors,
      query |-> query,
      destination_directory |-> destination_directory,
      export_server_url |-> IF export_server_url[Len(export_server_url)] # "/"
                            THEN Append(export_server_url, "/")
                            ELSE export_server_url,
      format |-> IF format = "geoparquet" THEN "jsonl" ELSE format,
      is_geoparquet |-> (format = "geoparquet"),
      refresh_date |-> refresh_date,
      sleep_time |-> sleep_time,
      collection_title |-> collection_title,
      collection_description |-> collection_description ]

query_with_timestamp(c) ==
    IF c.refresh_date # None
    THEN c.query \o " AND " \o SOLR_INDEX_UPDATED_TIME \o ":[" \o c.refresh_date \o " TO *]"
    ELSE c.query

\* mutant: create submits the base query whatever the refresh date
create_params_Base(c) == [q |-> c.query, export_format |-> c.format]

\* the params of the GET that create sends
create_params(c) ==
    [ q |-> IF c.refresh_date # None THEN query_with_timestamp(c) ELSE c.query,
      export_format |-> c.format ]

(***************************************************************************)
(* The filesystem: fs.dirs is the set of directories (a directory is the   *)
(* sequence of run timestamps below the root), fs.files maps a path        *)
(* <<directory, file name>> to the file's content.                         *)
(***************************************************************************)
exists(f, path) == path \in DOMAIN f.files

write_file(f, path, content) ==
    [f EXCEPT !.files = (path :> content) @@ f.files]

makedirs(f, dir) ==
    [f EXCEPT !.dirs = f.dirs \cup {SubSeq(dir, 1, k) : k \in 0..Len(dir)}]

IsPrefix(a, b) == Len(a) <= Len(b) /\ SubSeq(b, 1, Len(a)) = a

\* lines 196-207: the dict of one run
new_manifest_dict(c, query, id, started, num_results) ==
    LET base == [ query |-> query,
                  uuid |-> id,
                  format |-> c.format,
                  start_time |-> datetime_to_solr_format(started),
                  num_results |-> num_results,
                  export_server_url |-> c.export_server_url,
                  is_geoparquet |-> c.is_geoparquet ]
    IN  IF c.refresh_date # None
        THEN base @@ [query_with_timestamp |-> query_with_timestamp(c)]
        ELSE base

\* mutant: the existing file ignored
read_manifests_Fresh(f, new_dict, dir) == <<new_dict>>

\* lines 208-214: the list that will be written, from the file as it is now
read_manifests(f, new_dict, dir) ==
    IF exists(f, manifest_file_path(dir))
    THEN Append(json_load(f.files[manifest_file_path(dir)]), new_dict)
    ELSE <<new_dict>>

\* lines 215-216: the whole list rewritten
store_manifests(f, manifests, dir) ==
    write_file(f, manifest_file_path(dir), json_dumps(manifests))

write_manifest(f, c, query, id, started, num_results, dir) ==
    LET new_dict == new_manifest_dict(c, query, id, started, num_results)
    IN  store_manifests(f, read_manifests(f, new_dict, dir), dir)

\* mutant: glob instead of rglob, only the root and its subdirectories searched
gather_contained_stac_items_Glob(f, destination_directory) ==
    { p \in DOMAIN f.files : /\ p[2] = "stac.json"
                             /\ IsPrefix(destination_directory, p[1])
                             /\ Len(p[1]) <= Len(destination_directory) + 1 }

\* Path.rglob("stac.json") below destination_directory
gather_contained_stac_items(f, destination_directory) ==
    { p \in DOMAIN f.files : p[2] = "stac.json" /\ IsPrefix(destination_directory, p[1]) }

\* os.path.relpath(item, destination_directory), as <<directories, file name>>
relpath(p, start) == <<SubSeq(p[1], Len(start) + 1, Len(p[1])), p[2]>>

write_stac_catalog(f, c) ==
    LET dest == c.destination_directory
        items == gather_contained_stac_items(f, dest)
        children == { [ rel |-> "child",
                        title |-> p[1][Len(p[1])],
                        href |-> relpath(p, dest) ] :
                      p \in { q \in items : relpath(q, dest) # <<Root, "stac.json">> } }
        doc == [ type |-> "Catalog",
                 title |-> IF c.collection_title # None THEN c.collection_title
                           ELSE "iSamples STAC Catalog",
                 fixed_links |-> << [rel |-> "self", href |-> "stac.json"],
                                    [rel |-> "root", href |-> "stac.json"] >>,
                 child_links |-> children ]
    IN  write_file(f, stac_catalog_path(dest), doc)

\* mutant: the columnar asset added whatever the format
write_stac_item_AlwaysAsset(f, c, id, started, json_file_path, parquet_file_path) ==
    LET assets_dict == [ data |-> [ href |-> parquet_file_path[2],
                                    view |-> relpath(parquet_file_path,
                                                     c.destination_directory) ] ]
        doc == [ type |-> "Collection",
                 id |-> id,
                 datetime |-> datetime_to_solr_format(started),
                 self_href |-> json_file_path[2],
                 assets |-> assets_dict ]
    IN  write_file(f, stac_item_path(json_file_path[1]), doc)

\* lines 272-421: the item document with its assets (lines 282-304)
write_stac_item(f, c, id, started, json_file_path, parquet_file_path) ==
    LET assets_dict == IF c.is_geoparquet
                       THEN [ data |-> [ href |-> parquet_file_path[2],
                                         view |-> relpath(parquet_file_path,
                                                          c.destination_directory) ] ]
                       ELSE << >>
        doc == [ type |-> "Collection",
                 id |-> id,
                 datetime |-> datetime_to_solr_format(started),
                 self_href |-> json_file_path[2],
                 assets |-> assets_dict ]
    IN  write_file(f, stac_item_path(json_file_path[1]), doc)

(***************************************************************************)
(* Construction.                                                           *)
(***************************************************************************)
Resting == pc \in {"idle", "returned", "raised"}

RefreshDates == {None, datetime_to_solr_format(0)}

\* the positional call of line 128: the sixth positional parameter of __init__ is collection_title
\* mutant: the is_geoparquet flag of the entry not looked at
existing_format_Plain(last_manifest_dict) == last_manifest_dict.format

\* lines 123-127: the format handed to the constructor
existing_format(last_manifest_dict) ==
    IF last_manifest_dict.is_geoparquet THEN GEOPARQUET ELSE last_manifest_dict.format

rebuilt_client(last_manifest_dict, refresh_dir) ==
    LET query == last_manifest_dict.query
        export_server_url == last_manifest_dict.export_server_url
        format == existing_format(last_manifest_dict)
        refresh_date == last_manifest_dict.start_time
    IN  ExportClient(query, refresh_dir, export_server_url, format, refresh_date, None, None, DefaultSleepTime)

\* mutant: the directory made before the manifest is looked for
from_existing_download_Mkdir(refresh_dir) ==
    /\ Resting
    /\ fs' = makedirs(fs, refresh_dir)
    /\ IF ~exists(fs, manifest_file_path(refresh_dir))
       THEN /\ raised' = "ValueError: manifest file does not exist"
            /\ UNCHANGED <<client, built>>
       ELSE LET manifest_list == json_load(fs.files[manifest_file_path(refresh_dir)])
                last_manifest_dict == manifest_list[Len(manifest_list)]
            IN  /\ client' = rebuilt_client(last_manifest_dict, refresh_dir)
                /\ built' = [how |-> "existing", entry |-> <<last_manifest_dict>>,
                             at |-> nruns, format |-> existing_format(last_manifest_dict)]
                /\ raised' = None
    /\ UNCHANGED <<runVars, clock, jobs, result_lines, nruns, ghostVars, nSuccess,
                   callLog, concVars, pure>>

\* lines 113-128
from_existing_download(refresh_dir) ==
    /\ Resting
    /\ IF ~exists(fs, manifest_file_path(refresh_dir))
       THEN /\ raised' = "ValueError: manifest file does not exist"
            /\ UNCHANGED <<client, built, fs>>
       ELSE LET manifest_list == json_load(fs.files[manifest_file_path(refresh_dir)])
                last_manifest_dict == manifest_list[Len(manifest_list)]
            IN  /\ client' = rebuilt_client(last_manifest_dict, refresh_dir)
                /\ built' = [how |-> "existing", entry |-> <<last_manifest_dict>>,
                             at |-> nruns, format |-> existing_format(last_manifest_dict)]
                /\ fs' = makedirs(fs, refresh_dir)
                /\ raised' = None
    /\ UNCHANGED <<runVars, clock, jobs, result_lines, nruns, ghostVars, nSuccess,
                   callLog, concVars, pure>>

(***************************************************************************)
(* perform_full_download: lines 423-469.  One action for the entry (the    *)
(* create call), then one action per iteration of the while loop, by the   *)
(* branch the status response selects.                                     *)
(***************************************************************************)
RawStatuses == ExportJobStatus \cup {"unknown", None}
ResponseCodes == {200, 500}

\* time.sleep(sleep_time): a positive sleep ends in a later second (timestamps
\* are ordinal: only their order and equality are modelled)
sleep(now, sleep_time) == IF sleep_time > 0 THEN now + 1 ELSE now

job_uuid(k) == "job-" \o ToString(k)

\* lines 162-164 and 427-428: create returned the identifier, the counter starts
CreateReturns ==
    /\ jobs' = jobs + 1
    /\ result_lines' \in 0..MaxResults
    /\ uuid' = job_uuid(jobs + 1)
    /\ error_count' = 0
    /\ pc' = "loop"
    /\ raised' = None

\* mutant: the create call inside the try, its failure counted and retried
CreateRaises_Retried ==
    /\ jobs' = jobs
    /\ result_lines' = result_lines
    /\ uuid' = None
    /\ error_count' = 1
    /\ pc' = "loop"
    /\ raised' = None

\* line 165: create raises, outside the try of the loop
CreateRaises ==
    /\ jobs' = jobs
    /\ result_lines' = result_lines
    /\ uuid' = None
    /\ error_count' = NoCounter
    /\ pc' = "raised"
    /\ raised' = "ValueError: Invalid response to export creation"

\* lines 423-428
perform_full_download(code, elapsed) ==
    /\ Resting
    /\ client # NoClient
    /\ nruns < MaxRuns
    /\ nruns' = nruns + 1
    /\ clock + elapsed <= MaxClock
    /\ clock' = clock + elapsed
    /\ tstarted' = clock'
    /\ outcome' = None
    /\ submitted' = create_params(client)
    /\ nCreate' = 1
    /\ nStatus' = 0 /\ nPending' = 0 /\ nSleep' = 0 /\ nDownload' = 0 /\ nExc' = 0 /\ nPostExc' = 0
    /\ nManifest' = 0 /\ nItem' = 0 /\ nCatalog' = 0 /\ nParquet' = 0
    /\ lastResp' = None /\ streak' = 0 /\ usedUuids' = {}
    /\ IF is_expected_response_code(code) THEN CreateReturns ELSE CreateRaises
    /\ UNCHANGED <<client, built, fs, nSuccess, callLog, concVars, pure>>

\* mutant: the run abandoned when the counter reaches the maximum
ExceptClause_Ge ==
    /\ sleep(clock, client.sleep_time) <= MaxClock
    /\ clock' = sleep(clock, client.sleep_time)
    /\ nSleep' = nSleep + 1
    /\ error_count' = error_count + 1
    /\ IF error_count' >= client.max_errors
       THEN pc' = "returned" /\ outcome' = "abandoned"
       ELSE pc' = "loop" /\ outcome' = outcome
    /\ UNCHANGED <<uuid, tstarted, jobs, result_lines, nCreate, submitted, raised>>

\* mutant: the retry submits the job again
ExceptClause_Recreate ==
    /\ sleep(clock, client.sleep_time) <= MaxClock
    /\ clock' = sleep(clock, client.sleep_time)
    /\ nSleep' = nSleep + 1
    /\ error_count' = error_count + 1
    /\ IF error_count' > client.max_errors
       THEN pc' = "returned" /\ outcome' = "abandoned"
       ELSE pc' = "loop" /\ outcome' = outcome
    /\ jobs' = jobs + 1
    /\ uuid' = job_uuid(jobs + 1)
    /\ nCreate' = nCreate + 1
    /\ UNCHANGED <<tstarted, result_lines, submitted, raised>>

\* mutant: the exception slept over but not counted
ExceptClause_Forgiving ==
    /\ sleep(clock, client.sleep_time) <= MaxClock
    /\ clock' = sleep(clock, client.sleep_time)
    /\ nSleep' = nSleep + 1
    /\ pc' = "loop" /\ outcome' = outcome
    /\ UNCHANGED <<uuid, tstarted, jobs, result_lines, nCreate, submitted, raised,
                   error_count>>

\* lines 462-469: the except clause and the check that follows it
ExceptClause ==
    /\ sleep(clock, client.sleep_time) <= MaxClock
    /\ clock' = sleep(clock, client.sleep_time)
    /\ nSleep' = nSleep + 1
    /\ error_count' = error_count + 1
    /\ IF error_count' > client.max_errors
       THEN pc' = "returned" /\ outcome' = "abandoned"
       ELSE pc' = "loop" /\ outcome' = outcome
    /\ UNCHANGED <<uuid, tstarted, jobs, result_lines, nCreate, submitted, raised>>

\* line 431: the status call of one iteration
StatusCall ==
    /\ pc = "loop"
    /\ nStatus' = nStatus + 1
    /\ usedUuids' = usedUuids \cup {uuid}

\* mutant: a failed status call ends the run like a job error
StatusFails_Break(code, raw) ==
    /\ StatusCall
    /\ ~is_expected_response_code(code) \/ string_to_enum(raw) = "ValueError"
    /\ lastResp' = IF is_expected_response_code(code) THEN raw ELSE "http_error"
    /\ streak' = 0
    /\ pc' = "returned"
    /\ outcome' = "job_error"
    /\ UNCHANGED <<client, built, raised, uuid, tstarted, error_count, fs, clock, jobs,
                   result_lines, nruns, nCreate, nPending, nSleep, nDownload, nExc,
                   nPostExc, nManifest, nItem, nCatalog, nParquet, submitted, nSuccess,
                   callLog, concVars, pure>>

\* lines 431-432 raising: a non-2xx response (line 174) or a status string
\* that string_to_enum rejects (line 71)
StatusFails(code, raw) ==
    /\ StatusCall
    /\ ~is_expected_response_code(code) \/ string_to_enum(raw) = "ValueError"
    /\ lastResp' = IF is_expected_response_code(code) THEN raw ELSE "http_error"
    /\ streak' = 0
    /\ nExc' = nExc + 1
    /\ ExceptClause
    /\ UNCHANGED <<client, built, fs, nruns, nPending, nDownload, nPostExc, nManifest,
                   nItem, nCatalog, nParquet, nSuccess, callLog, concVars, pure>>

\* mutant: status error handled like an exception of the body
JobError_Retry ==
    /\ StatusCall
    /\ lastResp' = enum_value("ERROR")
    /\ streak' = 0
    /\ nExc' = nExc + 1
    /\ ExceptClause
    /\ UNCHANGED <<client, built, fs, nruns, nPending, nDownload, nPostExc, nManifest,
                   nItem, nCatalog, nParquet, nSuccess, callLog, concVars, pure>>

\* lines 433-435: status error, break
JobError ==
    /\ StatusCall
    /\ lastResp' = enum_value("ERROR")
    /\ streak' = 0
    /\ pc' = "returned"
    /\ outcome' = "job_error"
    /\ UNCHANGED <<client, built, raised, uuid, tstarted, error_count, fs, clock, jobs,
                   result_lines, nruns, nCreate, nPending, nSleep, nDownload, nExc,
                   nPostExc, nManifest, nItem,
                   nCatalog, nParquet, submitted, nSuccess, callLog, concVars, pure>>

\* mutant: a job still running counted against the error budget
StillRunning_Counted(raw) ==
    /\ StatusCall
    /\ string_to_enum(raw) \notin {"ValueError", "ERROR", "COMPLETED"}
    /\ nPending < MaxPolls
    /\ nPending' = nPending + 1
    /\ lastResp' = enum_value(string_to_enum(raw))
    /\ streak' = streak + 1
    /\ ExceptClause
    /\ UNCHANGED <<client, built, fs, nruns, nDownload, nExc, nPostExc, nManifest,
                   nItem, nCatalog, nParquet, nSuccess, callLog, concVars, pure>>

\* mutant: the download attempted while the job is still running
StillRunning_Downloads(raw) ==
    /\ StatusCall
    /\ string_to_enum(raw) \notin {"ValueError", "ERROR", "COMPLETED"}
    /\ nPending < MaxPolls
    /\ nPending' = nPending + 1
    /\ lastResp' = enum_value(string_to_enum(raw))
    /\ streak' = streak + 1
    /\ sleep(clock, client.sleep_time) <= MaxClock
    /\ clock' = sleep(clock, client.sleep_time)
    /\ nSleep' = nSleep + 1
    /\ nDownload' = nDownload + 1
    /\ pc' = "loop"
    /\ UNCHANGED <<client, built, raised, outcome, uuid, tstarted, error_count, fs, jobs,
                   result_lines, nruns, nCreate, nExc, nPostExc, nManifest, nItem,
                   nCatalog, nParquet, submitted, nSuccess, callLog, concVars, pure>>

\* mutant: continue without the sleep of line 438
StillRunning_NoSleep(raw) ==
    /\ StatusCall
    /\ string_to_enum(raw) \notin {"ValueError", "ERROR", "COMPLETED"}
    /\ nPending < MaxPolls
    /\ nPending' = nPending + 1
    /\ lastResp' = enum_value(string_to_enum(raw))
    /\ streak' = streak + 1
    /\ pc' = "loop"
    /\ UNCHANGED <<client, built, raised, outcome, uuid, tstarted, error_count, fs, jobs,
                   result_lines, nruns, nCreate, nDownload, nExc, nPostExc, nManifest, nItem,
                   nCatalog, nParquet, submitted, nSuccess, callLog, clock, nSleep,
                   concVars, pure>>

\* lines 436-439: created or started, sleep and continue
StillRunning(raw) ==
    /\ StatusCall
    /\ string_to_enum(raw) \notin {"ValueError", "ERROR", "COMPLETED"}
    /\ nPending < MaxPolls
    /\ nPending' = nPending + 1
    /\ lastResp' = enum_value(string_to_enum(raw))
    /\ streak' = streak + 1
    /\ sleep(clock, client.sleep_time) <= MaxClock
    /\ clock' = sleep(clock, client.sleep_time)
    /\ nSleep' = nSleep + 1
    /\ pc' = "loop"
    /\ UNCHANGED <<client, built, raised, outcome, uuid, tstarted, error_count, fs, jobs,
                   result_lines, nruns, nCreate, nDownload, nExc, nPostExc, nManifest, nItem,
                   nCatalog, nParquet, submitted, nSuccess, callLog, concVars, pure>>

\* mutant: the catalog regenerated before the item document is written
Steps_CatalogFirst ==
    << "download", "count", "write_manifest", "summarize", "geoparquet", "query",
       "write_stac_catalog", "write_stac_item" >>

\* the steps of the completed branch, in the order of lines 442-459; a step
\* that raises ends the iteration in the except clause with the earlier steps done
Steps == << "download",      \* 442
            "count",         \* 444
            "write_manifest",\* 446
            "summarize",     \* 448-450
            "geoparquet",    \* 453, only when is_geoparquet
            "query",         \* 455-456
            "write_stac_item",    \* 457
            "write_stac_catalog"  \* 459
         >>
StepOf(name) == CHOOSE k \in 1..Len(Steps) : Steps[k] = name
NoFailure == Len(Steps) + 1

export_dir(c, now) == Append(c.destination_directory, date_string(now))
local_filename(c, now) ==
    <<export_dir(c, now), "isamples_export_" \o date_string(now) \o "." \o c.format>>
parquet_filename(c, now) ==
    IF c.is_geoparquet
    THEN <<export_dir(c, now), "isamples_export_" \o date_string(now) \o "_geo.parquet">>
    ELSE <<export_dir(c, now), None>>

\* the filesystem after the steps before `fail` of one completed iteration
completed_fs(f, c, id, started, now, num_results, fail) ==
    LET dir == export_dir(c, now)
        f1 == IF fail > StepOf("download")
              THEN write_file(makedirs(f, dir), local_filename(c, now),
                              [lines |-> num_results])
              ELSE f
        f2 == IF fail > StepOf("write_manifest")
              THEN write_manifest(f1, c, c.query, id, started, num_results, dir)
              ELSE f1
        f3 == IF fail > StepOf("write_stac_item")
              THEN write_stac_item(f2, c, id, started, local_filename(c, now),
                                   parquet_filename(c, now))
              ELSE f2
    IN  IF fail > StepOf("write_stac_catalog") THEN write_stac_catalog(f3, c) ELSE f3

\* mutant: the break of line 461 left out, the loop goes on after a success
Completed_NoBreak(fail) ==
    /\ StatusCall
    /\ fail = StepOf("geoparquet") => client.is_geoparquet
    /\ lastResp' = enum_value("COMPLETED")
    /\ streak' = 0
    /\ nDownload' = nDownload + 1
    /\ fs' = completed_fs(fs, client, uuid, tstarted, clock, result_lines, fail)
    /\ nManifest' = nManifest + (IF fail > StepOf("write_manifest") THEN 1 ELSE 0)
    /\ nItem' = nItem + (IF fail > StepOf("write_stac_item") THEN 1 ELSE 0)
    /\ nCatalog' = nCatalog + (IF fail > StepOf("write_stac_catalog") THEN 1 ELSE 0)
    /\ nParquet' = nParquet + (IF client.is_geoparquet /\ fail >= StepOf("geoparquet")
                               THEN 1 ELSE 0)
    /\ callLog' = IF fail > StepOf("write_manifest")
                  THEN LET dir == export_dir(client, clock)
                           old == IF dir \in DOMAIN callLog THEN callLog[dir] ELSE << >>
                           new == new_manifest_dict(client, client.query, uuid, tstarted,
                                                    result_lines)
                       IN  (dir :> Append(old, new)) @@ callLog
                  ELSE callLog
    /\ IF fail = NoFailure
       THEN /\ pc' = "loop"
            /\ outcome' = "success"
            /\ nSuccess' = LET d == client.destination_directory
                               k == IF d \in DOMAIN nSuccess THEN nSuccess[d] ELSE 0
                           IN  (d :> k + 1) @@ nSuccess
            /\ UNCHANGED <<nExc, nPostExc, error_count, clock, nSleep, uuid, tstarted,
                           jobs, result_lines, nCreate, submitted, raised>>
       ELSE /\ nExc' = nExc + 1
            /\ nPostExc' = nPostExc + (IF fail > StepOf("download") THEN 1 ELSE 0)
            /\ ExceptClause
            /\ UNCHANGED nSuccess
    /\ UNCHANGED <<client, built, nruns, nPending, concVars, pure>>

\* lines 440-461: completed; download and post-process
Completed(fail) ==
    /\ StatusCall
    /\ fail = StepOf("geoparquet") => client.is_geoparquet
    /\ lastResp' = enum_value("COMPLETED")
    /\ streak' = 0
    /\ nDownload' = nDownload + 1
    /\ fs' = completed_fs(fs, client, uuid, tstarted, clock, result_lines, fail)
    /\ nManifest' = nManifest + (IF fail > StepOf("write_manifest") THEN 1 ELSE 0)
    /\ nItem' = nItem + (IF fail > StepOf("write_stac_item") THEN 1 ELSE 0)
    /\ nCatalog' = nCatalog + (IF fail > StepOf("write_stac_catalog") THEN 1 ELSE 0)
    /\ nParquet' = nParquet + (IF client.is_geoparquet /\ fail >= StepOf("geoparquet")
                               THEN 1 ELSE 0)
    /\ callLog' = IF fail > StepOf("write_manifest")
                  THEN LET dir == export_dir(client, clock)
                           old == IF dir \in DOMAIN callLog THEN callLog[dir] ELSE << >>
                           new == new_manifest_dict(client, client.query, uuid, tstarted,
                                                    result_lines)
                       IN  (dir :> Append(old, new)) @@ callLog
                  ELSE callLog
    /\ IF fail = NoFailure
       THEN /\ pc' = "returned"
            /\ outcome' = "success"
            /\ nSuccess' = LET d == client.destination_directory
                               k == IF d \in DOMAIN nSuccess THEN nSuccess[d] ELSE 0
                           IN  (d :> k + 1) @@ nSuccess
            /\ UNCHANGED <<nExc, nPostExc, error_count, clock, nSleep, uuid, tstarted,
                           jobs, result_lines, nCreate, submitted, raised>>
       ELSE /\ nExc' = nExc + 1
            /\ nPostExc' = nPostExc + (IF fail > StepOf("download") THEN 1 ELSE 0)
            /\ ExceptClause
            /\ UNCHANGED nSuccess
    /\ UNCHANGED <<client, built, nruns, nPending, concVars, pure>>

(***************************************************************************)
(* Spec: one ExportClient, freshly constructed on an empty destination,    *)
(* and one call of perform_full_download on it, against every behaviour of *)
(* the remote service.                                                     *)
(***************************************************************************)
NoRun ==
    /\ raised = None
    /\ pc = "idle"
    /\ outcome = None
    /\ uuid = None
    /\ tstarted = NoTime
    /\ error_count = NoCounter
    /\ clock = 0
    /\ jobs = 0
    /\ result_lines = 0
    /\ nruns = 0
    /\ nCreate = 0 /\ nStatus = 0 /\ nPending = 0 /\ nSleep = 0 /\ nDownload = 0
    /\ nExc = 0 /\ nPostExc = 0 /\ nManifest = 0 /\ nItem = 0 /\ nCatalog = 0 /\ nParquet = 0
    /\ lastResp = None
    /\ streak = 0
    /\ usedUuids = {}
    /\ submitted = NoParams
    /\ nSuccess = << >>
    /\ callLog = << >>

EmptyDisk == [dirs |-> {}, files |-> << >>]

\* a client as its constructor leaves it (lines 79-111), the directory made
Constructed(destination_directory) ==
    /\ \E q \in Queries, u \in Urls, fmt \in Formats, r \in RefreshDates, s \in SleepTimes :
          /\ client = ExportClient(q, destination_directory, u, fmt, None, None, r, s)
          /\ built = [how |-> "init", entry |-> << >>, at |-> 0, format |-> fmt]
    /\ fs = makedirs(EmptyDisk, destination_directory)

NoWriters == writers = << >> /\ mode = "serialized"

\* no function is under test
NoApplication == [none |-> TRUE]
Untested == pure = NoApplication

Init == Constructed(Root) /\ NoRun /\ NoWriters /\ Untested

LoopIteration ==
    \/ \E code \in ResponseCodes, raw \in RawStatuses : StatusFails(code, raw)
    \/ JobError
    \/ \E raw \in RawStatuses : StillRunning(raw)
    \/ \E fail \in 1..NoFailure : Completed(fail)

Next ==
    \/ \E code \in ResponseCodes, elapsed \in 0..1 :
          pc = "idle" /\ perform_full_download(code, elapsed)
    \/ LoopIteration

Spec == Init /\ [][Next]_vars

(***************************************************************************)
(* ResumeSpec: a destination directory over several runs.  The client is   *)
(* the constructed one or one rebuilt by from_existing_download from what  *)
(* earlier runs left on disk.  The remote service answers every call with  *)
(* 2xx, and its jobs complete or fail.                                     *)
(***************************************************************************)
\* a path at which nothing exists
MissingDir == <<"no_such_dir">>

NextResume ==
    \/ \E d \in fs.dirs \cup {MissingDir} : from_existing_download(d)
    \/ \E elapsed \in 0..1 : perform_full_download(200, elapsed)
    \/ JobError
    \/ Completed(NoFailure)

ResumeSpec == Init /\ [][NextResume]_vars

(***************************************************************************)
(* ManifestSpec: write_manifest called directly, any number of times up to *)
(* MaxAppends per directory, on the directories of a destination that      *)
(* holds no manifest at first.                                             *)
(***************************************************************************)
ManifestDirs == {Root, <<date_string(0)>>}

logged(dir) == IF dir \in DOMAIN callLog THEN callLog[dir] ELSE << >>

WriteManifestCall(query, id, num_results, dir) ==
    /\ pc = "idle"
    /\ dir \in fs.dirs
    /\ Len(logged(dir)) < MaxAppends
    /\ fs' = write_manifest(fs, client, query, id, clock, num_results, dir)
    /\ callLog' = (dir :> Append(logged(dir),
                                 new_manifest_dict(client, query, id, clock, num_results)))
                  @@ callLog
    /\ UNCHANGED <<client, built, raised, runVars, clock, jobs, result_lines, nruns,
                   ghostVars, nSuccess, concVars, pure>>

InitManifest == Constructed(<<date_string(0)>>) /\ NoRun /\ NoWriters /\ Untested

NextManifest ==
    \E q \in Queries, k \in 1..2, dir \in ManifestDirs : WriteManifestCall(q, job_uuid(k), 0, dir)

ManifestSpec == InitManifest /\ [][NextManifest]_vars

(***************************************************************************)
(* ConcurrentSpec: NumWriters orchestration runs append to the manifest of *)
(* one directory.  A call of write_manifest is two steps, the read of      *)
(* lines 208-214 and the write of lines 215-216; other processes run in    *)
(* between unless the callers serialize their runs (mode = "serialized").  *)
(***************************************************************************)
Writers == 1..NumWriters

\* the identifier of the k-th job of writer w
writer_uuid(w, k) == job_uuid(NumWriters * k + w)

\* lines 196-214 in process w: the dict built, the file read
WriteManifestRead(w) ==
    /\ writers[w].pc = "idle"
    /\ writers[w].done < MaxWriterAppends
    /\ mode = "serialized" => \A v \in Writers : writers[v].pc = "idle"
    /\ LET new_dict == new_manifest_dict(client, client.query,
                                         writer_uuid(w, writers[w].done), clock, 0)
       IN  writers' = [writers EXCEPT ![w].pc = "read",
                                      ![w].manifests = read_manifests(fs, new_dict, Root)]
    /\ UNCHANGED <<client, built, raised, runVars, fs, clock, jobs, result_lines, nruns,
                   ghostVars, nSuccess, callLog, mode, pure>>

\* lines 215-217 in process w: the list written, the call returns
WriteManifestStore(w) ==
    /\ writers[w].pc = "read"
    /\ fs' = store_manifests(fs, writers[w].manifests, Root)
    /\ writers' = [writers EXCEPT ![w].pc = "idle",
                                  ![w].manifests = << >>,
                                  ![w].done = @ + 1]
    /\ UNCHANGED <<client, built, raised, runVars, clock, jobs, result_lines, nruns,
                   ghostVars, nSuccess, callLog, mode, pure>>

InitConcurrent ==
    /\ Constructed(Root)
    /\ NoRun
    /\ writers = [w \in Writers |-> [pc |-> "idle", manifests |-> << >>, done |-> 0]]
    /\ mode \in {"serialized", "concurrent"}
    /\ Untested

NextConcurrent ==
    \/ \E w \in Writers : WriteManifestRead(w)
    \/ \E w \in Writers : WriteManifestStore(w)

ConcurrentSpec == InitConcurrent /\ [][NextConcurrent]_vars

(***************************************************************************)
(* Properties of one run (Spec).                                           *)
(***************************************************************************)
InRun == pc \in {"loop", "returned"}

NoManifestOnDisk == \A p \in DOMAIN fs.files : p[2] # "manifest.json"

\* C1: the error counter of a run starts at 0 and equals the number of
\* exceptions raised in the loop body so far (each adds exactly 1, nothing else
\* changes or resets it); the run is abandoned exactly when the counter is
\* MaxErrors + 1, the first value above the maximum, and the loop goes on
\* only with a counter of at most MaxErrors.
C1_ErrorCounter ==
    /\ InRun => error_count = nExc
    /\ pc = "loop" => error_count \in 0..MaxErrors
    /\ (outcome = "abandoned") <=> (InRun /\ error_count > MaxErrors)
    /\ outcome = "abandoned" => pc = "returned" /\ error_count = MaxErrors + 1

\* a run abandoned on its 4th exception, after exceptions of both kinds and a poll
C1_Witness ==
    /\ outcome = "abandoned"
    /\ nExc = MaxErrors + 1
    /\ nPostExc >= 1
    /\ nPostExc < nExc
    /\ nPending >= 1

\* C2 (as claimed): a run abandoned after 4 post-process exceptions has written
\* no manifest entry: no manifest.json exists below the destination.
C2_NoManifestAfterPostProcessFailures ==
    (outcome = "abandoned" /\ nPostExc = MaxErrors + 1) =>
        (nManifest = 0 /\ NoManifestOnDisk)

\* C4 (as claimed): an exception of create reaches the caller only once the
\* error counter has exceeded the maximum.
C4_CreateFailureRetried == pc = "raised" => error_count > MaxErrors

\* C4 (amended): a failed create is raised to the caller at once: it was the
\* only create call, no error counter exists, and no status call, sleep or
\* retry was made; the loop is only entered with a job identifier.
C4_CreateFailureImmediate ==
    /\ pc = "raised" =>
          /\ raised = "ValueError: Invalid response to export creation"
          /\ nCreate = 1
          /\ error_count = NoCounter
          /\ nStatus = 0
          /\ nSleep = 0
          /\ outcome = None
    /\ InRun => uuid # None /\ raised = None

C4_Witness == pc = "raised" /\ nCreate = 1 /\ nruns = 1

\* C5: a status call that returns error ends the run at once as a job failure:
\* the counter, the sleeps, the downloads, the clock and the disk are as before
\* the call, and a run that has returned makes no further status call.
C5_JobErrorTerminal ==
    [][ /\ (pc = "loop" /\ nStatus' = nStatus + 1 /\ lastResp' = "error") =>
              /\ pc' = "returned"
              /\ outcome' = "job_error"
              /\ error_count' = error_count
              /\ nExc' = nExc
              /\ nSleep' = nSleep
              /\ nDownload' = nDownload
              /\ clock' = clock
              /\ fs' = fs
        /\ pc = "returned" => nStatus' = nStatus /\ nDownload' = nDownload
      ]_vars

\* a job failure reported with the error counter at its maximum
C5_Witness == outcome = "job_error" /\ error_count = MaxErrors /\ lastResp = "error"

\* C7: a status call that returns created or started is followed by exactly
\* one sleep and leaves the run at the status call; it downloads nothing,
\* writes nothing and leaves the error counter alone.
C7_PendingSleepsAndRepolls ==
    [][ (pc = "loop" /\ nStatus' = nStatus + 1 /\ lastResp' \in {"created", "started"}) =>
              /\ nSleep' = nSleep + 1
              /\ pc' = "loop"
              /\ error_count' = error_count
              /\ nExc' = nExc
              /\ nDownload' = nDownload
              /\ fs' = fs
              /\ outcome' = outcome
              /\ uuid' = uuid
      ]_vars

\* as many consecutive created/started responses as the model allows, the run still polling
C7_Witness ==
    /\ pc = "loop"
    /\ streak = MaxPolls
    /\ nSleep = MaxPolls
    /\ error_count = 0
    /\ lastResp \in {"created", "started"}

\* C8 (as claimed): the status call that follows a post-process exception is
\* preceded by a new create call.
C8_RetryCreatesNewJob ==
    [][ (pc = "loop" /\ nPostExc >= 1 /\ nStatus' = nStatus + 1) => nCreate' >= 2 ]_vars

\* C8 (amended): a run makes one create call; every status call and download
\* of the run, those of a retry after a post-process exception included,
\* carries the job identifier that call returned.
C8_RetryKeepsJob ==
    InRun =>
        /\ nCreate = 1
        /\ uuid = job_uuid(jobs)
        /\ usedUuids \subseteq {uuid}
        /\ nDownload <= nStatus

\* a second download after a post-process exception, with the one job
C8_Witness ==
    /\ outcome = "success"
    /\ nPostExc >= 1
    /\ nDownload >= 2
    /\ usedUuids = {uuid}

(***************************************************************************)
(* Properties of resumption (ResumeSpec).                                  *)
(***************************************************************************)
\* C3 (as claimed): a client rebuilt from a manifest entry has the entry's
\* query, server URL and format, and the entry's start time as refresh date;
\* the create call of its next run submits the query with the timestamp filter.
C3_RebuiltClientIsIncremental ==
    built.how = "existing" =>
        LET e == built.entry[1]
        IN  /\ client.query = e.query
            /\ client.export_server_url = e.export_server_url
            /\ client.format = e.format
            /\ client.refresh_date = e.start_time
            /\ nruns > built.at =>
                  submitted.q = e.query \o " AND indexUpdatedTime:[" \o e.start_time \o " TO *]"

C9_ManifestAppendOnly ==
    \A dir \in fs.dirs :
        IF logged(dir) = << >>
        THEN ~exists(fs, manifest_file_path(dir))
        ELSE /\ exists(fs, manifest_file_path(dir))
             /\ json_load(fs.files[manifest_file_path(dir)]) = logged(dir)

\* a manifest of MaxAppends different entries, beside another manifest
C9_Witness ==
    /\ Len(logged(Root)) = MaxAppends
    /\ logged(Root)[1] # logged(Root)[2]
    /\ Len(json_load(fs.files[manifest_file_path(Root)])) = MaxAppends
    /\ Len(logged(<<date_string(0)>>)) = 1

RECURSIVE completed_appends(_)
completed_appends(W) ==
    IF W = {} THEN 0
    ELSE LET w == CHOOSE x \in W : TRUE
         IN  writers[w].done + completed_appends(W \ {w})

manifest_length(dir) ==
    IF exists(fs, manifest_file_path(dir))
    THEN Len(json_load(fs.files[manifest_file_path(dir)]))
    ELSE 0

manifest_uuids(dir) ==
    IF exists(fs, manifest_file_path(dir))
    THEN LET manifests == json_load(fs.files[manifest_file_path(dir)])
         IN  { manifests[i].uuid : i \in 1..Len(manifests) }
    ELSE {}

\* C10: with the appends to a directory serialized, no entry is ever lost: the
\* manifest holds exactly one entry per completed append.  (That concurrent
\* appends can lose an entry is the reachability of C10_LostEntry.)
C10_SerializedAppendsLoseNothing ==
    mode = "serialized" =>
        /\ manifest_length(Root) = completed_appends(Writers)
        /\ manifest_uuids(Root) =
              UNION { { writer_uuid(w, k) : k \in 0..(writers[w].done - 1) } : w \in Writers }

\* two writers both read before either wrote: two appends completed, one entry kept
C10_LostEntry ==
    /\ mode = "concurrent"
    /\ \A w \in Writers : writers[w].pc = "idle"
    /\ completed_appends(Writers) = 2
    /\ manifest_length(Root) = 1

(***************************************************************************)
(* CatalogSpec: write_stac_catalog called on destination trees in which    *)
(* earlier runs left item documents at different depths, inside and        *)
(* outside the destination directory.                                      *)
(***************************************************************************)
CatalogRoots == {Root, <<"a">>}
TreeDirs == {<<"a">>, <<"b">>, <<"a", "c">>, <<"b", "c">>, <<"a", "c", "d">>}

\* lines 272-421 called for a result file in dir
PlaceItem(dir) ==
    /\ fs' = write_stac_item(makedirs(fs, dir), client, job_uuid(1), clock,
                             <<dir, "export." \o client.format>>,
                             <<dir, "export_geo.parquet">>)
    /\ UNCHANGED <<client, built, raised, runVars, clock, jobs, result_lines, nruns,
                   ghostVars, nSuccess, callLog, concVars, pure>>

\* lines 223-270 called directly
WriteCatalogCall ==
    /\ nCatalog < MaxCatalogWrites
    /\ fs' = write_stac_catalog(fs, client)
    /\ nCatalog' = nCatalog + 1
    /\ UNCHANGED <<client, built, raised, runVars, clock, jobs, result_lines, nruns,
                   nCreate, nStatus, nPending, nSleep, nDownload, nExc, nPostExc,
                   nManifest, nItem, nParquet, lastResp, streak, usedUuids, submitted,
                   nSuccess, callLog, concVars, pure>>

InitCatalog ==
    /\ \E d \in CatalogRoots : Constructed(d)
    /\ NoRun /\ NoWriters /\ Untested

NextCatalog ==
    \/ \E dir \in TreeDirs : PlaceItem(dir)
    \/ WriteCatalogCall

CatalogSpec == InitCatalog /\ [][NextCatalog]_vars

\* the directories strictly below dest that hold an item document
item_dirs(f, dest) ==
    { d \in f.dirs : IsPrefix(dest, d) /\ d # dest /\ <<d, "stac.json">> \in DOMAIN f.files }

\* C11: a call of write_stac_catalog leaves a catalog whose links are self,
\* root and one child link per item document strictly below the destination
\* directory, titled with the name of the item's directory; the file at the
\* catalog's own path, there before the call or not, is never a child.
C11_CatalogLinks ==
    [][ nCatalog' = nCatalog + 1 =>
          LET dest == client.destination_directory
              doc == fs'.files[<<dest, "stac.json">>]
              K == item_dirs(fs, dest)
          IN  /\ doc.type = "Catalog"
              /\ Len(doc.fixed_links) = 2
              /\ doc.fixed_links[1].rel = "self" /\ doc.fixed_links[2].rel = "root"
              /\ Cardinality(doc.child_links) = Cardinality(K)
              /\ \A d \in K : \E l \in doc.child_links :
                     /\ l.rel = "child"
                     /\ l.title = d[Len(d)]
                     /\ l.href = <<SubSeq(d, Len(dest) + 1, Len(d)), "stac.json">>
              /\ \A l \in doc.child_links : l.href # <<Root, "stac.json">> ]_vars

\* a second catalog write over an existing catalog, with items at depth 1 and 2
C11_Witness ==
    /\ nCatalog = 2
    /\ client.destination_directory = <<"a">>
    /\ exists(fs, <<client.destination_directory, "stac.json">>)
    /\ fs.files[<<client.destination_directory, "stac.json">>].type = "Catalog"
    /\ Cardinality(fs.files[<<client.destination_directory, "stac.json">>].child_links) = 2

(***************************************************************************)
(* Further properties of one run (Spec).                                   *)
(***************************************************************************)
\* the manifest entries on disk
manifest_entries ==
    UNION { { json_load(fs.files[p])[k] : k \in 1..Len(json_load(fs.files[p])) } :
            p \in { q \in DOMAIN fs.files : q[2] = "manifest.json" } }

\* C12: with a refresh timestamp T the query of the create call and the
\* query_with_timestamp field of the manifest entries are both
\* "Q AND indexUpdatedTime:[T TO *]"; without one the create call submits
\* exactly Q and the entries have no query_with_timestamp field; the query
\* field of the entries is Q in both cases.
C12_TimestampedQuery ==
    LET Q == client.query
        T == client.refresh_date
        QT == Q \o " AND indexUpdatedTime:[" \o T \o " TO *]"
    IN  /\ nCreate >= 1 => submitted.q = (IF T # None THEN QT ELSE Q)
        /\ \A e \in manifest_entries :
              /\ e.query = Q
              /\ IF T # None
                 THEN "query_with_timestamp" \in DOMAIN e /\ e.query_with_timestamp = QT
                 ELSE "query_with_timestamp" \notin DOMAIN e

\* a run with a refresh timestamp that has created its job and written a manifest entry
C12_Witness ==
    /\ client.refresh_date # None
    /\ nCreate = 1
    /\ \E e \in manifest_entries : "query_with_timestamp" \in DOMAIN e

\* C13: a status call answered with a non-2xx code, or with a status string
\* that is missing or is none of the four known ones, counts as an exception
\* of the loop body: the error counter goes up by one, the run sleeps for the
\* configured interval, nothing is downloaded or written, and the run polls
\* again unless the counter now exceeds the maximum, in which case it is
\* abandoned.
C13_StatusFailureCounted ==
    [][ (pc = "loop" /\ nStatus' = nStatus + 1 /\ lastResp' \notin ExportJobStatus) =>
          /\ error_count' = error_count + 1
          /\ nSleep' = nSleep + 1
          /\ clock' = sleep(clock, client.sleep_time)
          /\ nDownload' = nDownload /\ fs' = fs
          /\ uuid' = uuid /\ nCreate' = nCreate
          /\ IF error_count' > MaxErrors
             THEN pc' = "returned" /\ outcome' = "abandoned"
             ELSE pc' = "loop" /\ outcome' = None ]_vars

\* a run abandoned on a status string that is none of the four
C13_Witness ==
    /\ lastResp = "unknown"
    /\ outcome = "abandoned"
    /\ error_count = MaxErrors + 1
    /\ nStatus >= MaxErrors + 1

\* C14 (as claimed): a run writes at most one item document.
C14_AtMostOneItem == InRun => nItem <= 1

\* C14: a run writes at most one item document per download attempt, and a
\* further one only after an attempt that raised after its download; a run
\* writes at most one catalog, so every item but the last was followed by a
\* step that raised (write_stac_catalog), and no run writes more than
\* MaxErrors + 1 item documents.
C14_OneItemPerAttempt ==
    InRun => /\ nItem <= nDownload
             /\ nCatalog <= 1
             /\ nItem <= nCatalog + nPostExc
             /\ nItem <= MaxErrors + 1

\* a run that succeeded at its fourth attempt, after three item documents
\* whose catalog write raised
C14_Witness ==
    /\ outcome = "success"
    /\ nItem = MaxErrors + 1
    /\ nCatalog = 1
    /\ nPostExc = MaxErrors

\* the item documents on disk
item_documents ==
    { fs.files[p] : p \in { q \in DOMAIN fs.files :
                               q[2] = "stac.json" /\ fs.files[q].type = "Collection" } }

\* C15: the converter is called exactly in the runs whose requested format
\* is geoparquet, there before every item document is written, and the item
\* documents of such a run carry the columnar asset (named after the
\* converter's output file) while those of every other run have no asset.
C15_ColumnarAssetIffConverted ==
    InRun =>
        LET geo == (built.format = GEOPARQUET)
        IN  /\ client.is_geoparquet = geo
            /\ ~geo => nParquet = 0
            /\ geo => nItem <= nParquet /\ (nDownload > nExc => nParquet >= 1)
            /\ \A doc \in item_documents :
                  IF geo
                  THEN /\ DOMAIN doc.assets = {"data"}
                       /\ \E t \in 0..MaxClock :
                             doc.assets.data.href =
                                 "isamples_export_" \o date_string(t) \o "_geo.parquet"
                  ELSE DOMAIN doc.assets = {}

\* a geoparquet run that converted its download and wrote the item with the asset
C15_Witness ==
    /\ InRun
    /\ built.format = GEOPARQUET
    /\ nParquet >= 1
    /\ \E doc \in item_documents : "data" \in DOMAIN doc.assets

(***************************************************************************)
(* Further properties of resumption (ResumeSpec).                          *)
(***************************************************************************)
\* C16: from_existing_download of a directory without manifest.json raises
\* at once: no client is constructed, no remote call is made, nothing is
\* retried or slept, and the filesystem is left as it was.
C16_MissingManifestFailsAtOnce ==
    [][ raised' = "ValueError: manifest file does not exist" =>
          /\ Resting
          /\ \E d \in fs.dirs \cup {MissingDir} : ~exists(fs, manifest_file_path(d))
          /\ UNCHANGED <<client, built, fs, jobs, clock, runVars, ghostVars, nruns>> ]_vars

\* the failure after a successful run, on a directory that has no manifest
C16_Witness ==
    /\ raised = "ValueError: manifest file does not exist"
    /\ outcome = "success"
    /\ ~exists(fs, manifest_file_path(Root))
    /\ MissingDir \notin fs.dirs

(***************************************************************************)
(* EnumSpec: string_to_enum applied to status strings, the four of the     *)
(* service and others, a missing one (None) included.                      *)
(***************************************************************************)
StatusInputs ==
    {"created", "started", "completed", "error",
     "CREATED", "Completed", "errors", "unknown", "", None}

\* no ExportClient is involved
NoObject ==
    /\ client = NoClient
    /\ built = [how |-> "none", entry |-> << >>, at |-> 0, format |-> None]
    /\ fs = EmptyDisk

\* lines 66-71 applied to raw
ParseStatus(raw) ==
    /\ Len(pure.calls) < MaxParses
    /\ pure' = [pure EXCEPT !.calls = Append(@, [raw |-> raw, result |-> string_to_enum(raw)])]
    /\ UNCHANGED <<client, built, raised, runVars, fs, clock, jobs, result_lines, nruns,
                   ghostVars, nSuccess, callLog, concVars>>

InitEnum ==
    /\ NoObject /\ NoRun /\ NoWriters
    /\ pure = [op |-> "string_to_enum", calls |-> << >>]

NextEnum == \E raw \in StatusInputs : ParseStatus(raw)

EnumSpec == InitEnum /\ [][NextEnum]_vars

\* C17: string_to_enum maps each of "created", "started", "completed" and
\* "error" to the member whose value is that string, so that the member's
\* value parses back to the member, and fails for every other input.
C17_StringToEnum ==
    pure.op = "string_to_enum" =>
        \A k \in 1..Len(pure.calls) :
            LET raw == pure.calls[k].raw
                result == pure.calls[k].result
            IN  IF raw \in {"created", "started", "completed", "error"}
                THEN /\ result \in {"CREATED", "STARTED", "COMPLETED", "ERROR"}
                     /\ enum_value(result) = raw
                     /\ string_to_enum(enum_value(result)) = result
                     /\ \A other \in {"created", "started", "completed", "error"} \ {raw} :
                            string_to_enum(other) # result
                ELSE result = "ValueError"

\* a known string parsed, then an unknown one rejected
C17_Witness ==
    /\ pure.op = "string_to_enum"
    /\ Len(pure.calls) = 2
    /\ pure.calls[1].raw = "completed" /\ pure.calls[1].result = "COMPLETED"
    /\ pure.calls[2].raw = "Completed" /\ pure.calls[2].result = "ValueError"

(***************************************************************************)
(* DownloadSpec: the streaming part of download (lines 190-192).  The      *)
(* response body arrives in chunks of any sizes up to chunk_size; the file *)
(* may exist already with other content.                                   *)
(***************************************************************************)
Bytes == {0, 1}
Payloads == UNION { [1..n -> Bytes] : n \in 0..MaxPayload }
Min(a, b) == IF a <= b THEN a ELSE b

\* mutant: the file opened anew for every chunk
file_write_Reopened(content, chunk) == chunk

\* f.write(chunk) on a file object: the chunk goes after what was written
file_write(content, chunk) == content \o chunk

\* line 190: open(local_filename, "wb") truncates
DownloadOpen ==
    /\ pure.pc = "request"
    /\ pure' = [pure EXCEPT !.pc = "streaming", !.file = << >>]
    /\ UNCHANGED <<client, built, raised, runVars, fs, clock, jobs, result_lines, nruns,
                   ghostVars, nSuccess, callLog, concVars>>

\* lines 191-192: one chunk of n bytes arrives and is written
DownloadChunk(n) ==
    /\ pure.pc = "streaming"
    /\ n <= Min(chunk_size, Len(pure.rest))
    /\ pure' = [pure EXCEPT !.file = file_write(@, SubSeq(pure.rest, 1, n)),
                            !.rest = SubSeq(@, n + 1, Len(@)),
                            !.chunks = @ + 1]
    /\ UNCHANGED <<client, built, raised, runVars, fs, clock, jobs, result_lines, nruns,
                   ghostVars, nSuccess, callLog, concVars>>

\* the stream is exhausted, the with block closes the file (line 193)
DownloadClose ==
    /\ pure.pc = "streaming"
    /\ pure.rest = << >>
    /\ pure' = [pure EXCEPT !.pc = "closed"]
    /\ UNCHANGED <<client, built, raised, runVars, fs, clock, jobs, result_lines, nruns,
                   ghostVars, nSuccess, callLog, concVars>>

InitDownload ==
    /\ NoObject /\ NoRun /\ NoWriters
    /\ \E p \in Payloads, old \in {<< >>, <<1, 1>>} :
          pure = [op |-> "download", pc |-> "request", payload |-> p, rest |-> p,
                  file |-> old, chunks |-> 0]

NextDownload ==
    \/ DownloadOpen
    \/ \E n \in 1..MaxPayload : DownloadChunk(n)
    \/ DownloadClose

DownloadSpec == InitDownload /\ [][NextDownload]_vars

\* C18: whatever the payload and however it is cut into chunks, the file
\* holds the chunks written so far in arrival order, and once the stream is
\* exhausted and the file closed its content is the payload.
C18_FileEqualsPayload ==
    /\ pure.pc = "streaming" => pure.file \o pure.rest = pure.payload
    /\ pure.pc = "closed" => pure.file = pure.payload

\* a payload of the largest size that arrived in more than one chunk
C18_Witness ==
    /\ pure.pc = "closed"
    /\ Len(pure.payload) = MaxPayload
    /\ pure.chunks >= 2
    /\ pure.file = pure.payload

(***************************************************************************)
(* The order of the remote calls and the sleeps of one run (Spec).         *)
(***************************************************************************)
\* C19: every download call of a run is made in an iteration whose status
\* call, for the identifier returned by the run's only create call, was
\* answered "completed"; no download precedes a completed answer, and a
\* download after an exception has a status call and a completed answer of
\* its own.
C19_DownloadAfterCompleted ==
    [][ /\ nDownload' # nDownload =>
              /\ pc = "loop"
              /\ nDownload' = nDownload + 1
              /\ nStatus' = nStatus + 1
              /\ lastResp' = "completed"
              /\ uuid = job_uuid(jobs) /\ uuid' = uuid /\ jobs' = jobs
              /\ nCreate = 1 /\ nCreate' = 1
              /\ usedUuids' = {uuid}
        /\ nDownload' <= nStatus' ]_vars

\* a second download of the run, after an exception that followed the first
C19_Witness ==
    /\ nDownload = 2
    /\ nStatus >= 2
    /\ nPostExc >= 1
    /\ nPending >= 1
    /\ lastResp = "completed"

\* C20: a run sleeps exactly once, for the configured interval, between
\* one status call and the next, whether the next call follows a created or
\* started answer or an exception: while the loop goes on the sleeps made
\* are as many as the status calls made.
C20_OneSleepBetweenStatusCalls ==
    [][ /\ (pc = "loop" /\ pc' = "loop") =>
              /\ nStatus' = nStatus + 1
              /\ nSleep' = nSleep + 1
              /\ clock' = sleep(clock, client.sleep_time)
        /\ pc' = "loop" => nSleep' = nStatus'
        /\ pc' = "returned" => nSleep' \in {nStatus' - 1, nStatus'}
        /\ (pc' = "returned" /\ nSleep' = nStatus') => outcome' = "abandoned" ]_vars

\* three status calls with a sleep of the default interval after each, one
\* after a started answer and one after an exception
C20_Witness ==
    /\ pc = "loop"
    /\ client.sleep_time = DefaultSleepTime
    /\ nStatus = 3 /\ nSleep = 3
    /\ nPending >= 1 /\ nExc >= 1

(***************************************************************************)
(* LiveSpec: one run that always takes its next step, against a remote     *)
(* service that may answer created/started for ever.  Past MaxPolls such   *)
(* answers the ghost counters and the clock are no longer advanced: the    *)
(* variables of the program itself are, after the poll, what they were     *)
(* before it.                                                              *)
(***************************************************************************)
\* lines 436-439, past the horizon of the counters
StillRunningAgain(raw) ==
    /\ pc = "loop"
    /\ string_to_enum(raw) \notin {"ValueError", "ERROR", "COMPLETED"}
    /\ nPending = MaxPolls
    /\ lastResp' = enum_value(string_to_enum(raw))
    /\ UNCHANGED <<client, built, raised, pc, outcome, uuid, tstarted, error_count, fs,
                   clock, jobs, result_lines, nruns, nCreate, nStatus, nPending, nSleep,
                   nDownload, nExc, nPostExc, nManifest, nItem, nCatalog, nParquet,
                   streak, usedUuids, submitted, nSuccess, callLog, concVars, pure>>

\* the fields of the client that the loop does not read are fixed
InitLive ==
    /\ Init
    /\ client.query = "material:rock"
    /\ client.refresh_date = None
    /\ client.export_server_url = <<"http://host/export", "/">>

NextLive ==
    \/ Next
    \/ \E raw \in RawStatuses : StillRunningAgain(raw)

LiveSpec == InitLive /\ [][NextLive]_vars /\ WF_vars(NextLive)

Terminated == pc \in {"returned", "raised"}

\* C21: a run makes at most MaxErrors + 1 download calls and at most
\* MaxErrors + 1 exceptions are caught, and a run that always takes its next
\* step ends (with a success, a status of error, an exhausted budget or a
\* failed create) unless from some point on every status call is answered
\* created or started, in which case it stays in the loop.
C21_TerminatesUnlessPendingForever ==
    /\ [](nDownload <= MaxErrors + 1 /\ nExc <= MaxErrors + 1)
    /\ \/ <>Terminated
       \/ <>[](pc = "loop" /\ lastResp \in {"created", "started"})

\* a run that polled a pending job, then downloaded four times and gave up
C21_Witness ==
    /\ Terminated
    /\ outcome = "abandoned"
    /\ nPending >= 1
    /\ nDownload = MaxErrors + 1

(***************************************************************************)
(* The order of the writes of one run (Spec).                              *)
(***************************************************************************)
\* C22: an iteration writes its manifest entry before its item document and
\* its item document before the catalog, so no catalog is written without
\* the item and no item without the manifest entry; the catalog write ends
\* the run with a success, and the catalog it leaves has a child link to the
\* item document of the same iteration, which carries the run's job
\* identifier.
C22_ManifestItemCatalog ==
    [][ /\ nCatalog' <= nItem' /\ nItem' <= nManifest'
        /\ nCatalog' # nCatalog =>
              LET dest == client.destination_directory
                  run_dir == export_dir(client, clock)
                  catalog == fs'.files[<<dest, "stac.json">>]
                  item == fs'.files[<<run_dir, "stac.json">>]
              IN  /\ nCatalog' = nCatalog + 1
                  /\ nItem' = nItem + 1 /\ nManifest' = nManifest + 1
                  /\ pc' = "returned" /\ outcome' = "success"
                  /\ exists(fs', manifest_file_path(run_dir))
                  /\ item.type = "Collection" /\ item.id = uuid
                  /\ catalog.type = "Catalog"
                  /\ \E l \in catalog.child_links :
                        /\ l.rel = "child"
                        /\ l.href = <<SubSeq(run_dir, Len(dest) + 1, Len(run_dir)), "stac.json">>
                        /\ l.title = date_string(clock) ]_vars

\* a success after an attempt whose item had been written but whose catalog write raised
C22_Witness ==
    /\ outcome = "success"
    /\ nCatalog = 1
    /\ nItem = 2
    /\ nManifest = 2
    /\ exists(fs, <<Root, "stac.json">>)

(***************************************************************************)
(* The format over a manifest round trip (ResumeSpec).                     *)
(***************************************************************************)
\* C23: a client asked for geoparquet requests export_format jsonl and
\* writes manifest entries with format jsonl and is_geoparquet true; a
\* client rebuilt from such an entry again has is_geoparquet true and
\* format jsonl, and a client rebuilt from an entry of any other format F
\* has format F and is_geoparquet false.
C23_FormatRoundTrip ==
    /\ built.how = "init" =>
          IF built.format = "geoparquet"
          THEN client.format = "jsonl" /\ client.is_geoparquet
          ELSE client.format = built.format /\ ~client.is_geoparquet
    /\ nCreate >= 1 => submitted.export_format = client.format
    /\ \A e \in manifest_entries :
          e.format = client.format /\ e.is_geoparquet = client.is_geoparquet
    /\ built.how = "existing" =>
          LET e == built.entry[1]
          IN  IF e.is_geoparquet
              THEN e.format = "jsonl" /\ client.format = "jsonl" /\ client.is_geoparquet
              ELSE client.format = e.format /\ ~client.is_geoparquet

\* a client rebuilt from a geoparquet entry that has submitted its own job
C23_Witness ==
    /\ built.how = "existing"
    /\ built.entry[1].is_geoparquet
    /\ client.is_geoparquet
    /\ nruns > built.at
    /\ submitted.export_format = "jsonl"

(***************************************************************************)
(* RangeSpec: send_bytes_range_requests (fastapi_server.py, lines 17-28)   *)
(* on the ranges that range_requests_response hands it (lines 71-84): the  *)
(* whole file when there is no Range header, a validated range otherwise.  *)
(* The byte at offset k of the served file is k, so that the content of a  *)
(* response tells which offsets it was read from.                          *)
(***************************************************************************)
served_file(file_size) == [k \in 1..file_size |-> k - 1]

\* f.read(n) at position pos of a regular file: short at the end of the file
file_read(file, pos, n) == SubSeq(file, pos + 1, Min(pos + n, Len(file)))

\* mutant: end taken as exclusive
read_size_Exclusive(size, end, pos) == Min(size, end - pos)

\* line 27
read_size(size, end, pos) == Min(size, end + 1 - pos)

\* lines 65 and 77-78: the content-length header
content_length(file_size, ranged, start, end) ==
    IF ranged THEN end - start + 1 ELSE file_size

\* line 25: f.seek(start)
RangeSeek ==
    /\ pure.pc = "seek"
    /\ pure' = [pure EXCEPT !.pc = "loop", !.pos = pure.start]
    /\ UNCHANGED <<client, built, raised, runVars, fs, clock, jobs, result_lines, nruns,
                   ghostVars, nSuccess, callLog, concVars>>

\* lines 26-28 with pos <= end: one chunk read and yielded
RangeYield ==
    /\ pure.pc = "loop"
    /\ pure.pos <= pure.end
    /\ LET data == file_read(pure.file, pure.pos,
                             read_size(pure.chunk, pure.end, pure.pos))
       IN  pure' = [pure EXCEPT !.out = @ \o data,
                                !.pos = @ + Len(data),
                                !.yields = @ + 1]
    /\ UNCHANGED <<client, built, raised, runVars, fs, clock, jobs, result_lines, nruns,
                   ghostVars, nSuccess, callLog, concVars>>

\* line 26 with pos > end: the generator is exhausted
RangeDone ==
    /\ pure.pc = "loop"
    /\ pure.pos > pure.end
    /\ pure' = [pure EXCEPT !.pc = "done"]
    /\ UNCHANGED <<client, built, raised, runVars, fs, clock, jobs, result_lines, nruns,
                   ghostVars, nSuccess, callLog, concVars>>

InitRange ==
    /\ NoObject /\ NoRun /\ NoWriters
    /\ \E file_size \in 0..MaxFileSize, ranged \in BOOLEAN, size \in 1..MaxChunk :
       \E start \in 0..file_size, end \in -1..(file_size - 1) :
          /\ IF ranged THEN start <= end ELSE start = 0 /\ end = file_size - 1
          /\ pure = [op |-> "send_bytes_range_requests", pc |-> "seek",
                     file |-> served_file(file_size), start |-> start, end |-> end,
                     chunk |-> size, pos |-> 0, out |-> << >>, yields |-> 0,
                     advertised |-> content_length(file_size, ranged, start, end)]

NextRange == RangeSeek \/ RangeYield \/ RangeDone

RangeSpec == InitRange /\ [][NextRange]_vars

\* C24: for 0 <= start <= end <= S - 1 and any chunk size >= 1 every chunk
\* yielded has at least one byte, so that the generator stops after at most
\* end - start + 1 chunks; what it has yielded so far is the file from
\* offset start up to the read position, and when it is exhausted the
\* chunks together are the end - start + 1 bytes at offsets start..end, as
\* many as the content-length header says.
C24_InclusiveRange ==
    (pure.pc \in {"loop", "done"} /\ pure.start <= pure.end) =>
        /\ pure.start <= pure.pos /\ pure.pos <= pure.end + 1
        /\ pure.yields <= Len(pure.out)
        /\ pure.out = [k \in 1..(pure.pos - pure.start) |-> pure.start + k - 1]
        /\ pure.pc = "done" =>
              /\ pure.pos = pure.end + 1
              /\ Len(pure.out) = pure.end - pure.start + 1
              /\ Len(pure.out) = pure.advertised
              /\ \A k \in 1..Len(pure.out) : pure.out[k] = pure.file[pure.start + k]

\* a range inside the file served in more than one chunk, the last one short
C24_Witness ==
    /\ pure.pc = "done"
    /\ pure.start >= 1
    /\ pure.end < Len(pure.file) - 1
    /\ pure.chunk = 2
    /\ pure.yields = 2
    /\ Len(pure.out) = 3

(***************************************************************************)
(* HeaderSpec: _get_range_header (fastapi_server.py, lines 31-47).  A      *)
(* header is the sequence of its tokens: the unit prefix "bytes=", the     *)
(* separator "-", decimal digits, and a character that is none of these.   *)
(***************************************************************************)
Digits == {"0", "2", "9"}
HeaderTokens == {"bytes=", "-", "x"} \cup Digits
Headers == UNION { [1..n -> HeaderTokens] : n \in 0..MaxHeader }

digit_value(d) == CASE d = "0" -> 0 [] d = "2" -> 2 [] d = "9" -> 9

\* range_header.replace("bytes=", "")
strip_unit(range_header) == SelectSeq(range_header, LAMBDA t : t # "bytes=")

\* str.split("-"): the parts between the separators, at least one
RECURSIVE split(_)
split(text) ==
    IF \A k \in 1..Len(text) : text[k] # "-" THEN <<text>>
    ELSE LET k == CHOOSE i \in 1..Len(text) :
                      text[i] = "-" /\ \A j \in 1..(i - 1) : text[j] # "-"
         IN  <<SubSeq(text, 1, k - 1)>> \o split(SubSeq(text, k + 1, Len(text)))

\* int(text) raises ValueError unless text is a non-empty string of digits
is_int(text) == text # << >> /\ \A k \in 1..Len(text) : text[k] \in Digits

RECURSIVE int(_)
int(text) ==
    IF text = << >> THEN 0
    ELSE 10 * int(SubSeq(text, 1, Len(text) - 1)) + digit_value(text[Len(text)])

invalid_range == [kind |-> "HTTPException", status |-> 416]

\* lines 38-47, in the order of evaluation: h[0] and int(h[0]), then h[1]
\* (IndexError when split returned one part) and int(h[1]), then the bounds
get_range_header(range_header, file_size) ==
    LET h == split(strip_unit(range_header))
    IN  IF h[1] # << >> /\ ~is_int(h[1]) THEN invalid_range
        ELSE IF Len(h) < 2 THEN [kind |-> "IndexError"]
        ELSE IF h[2] # << >> /\ ~is_int(h[2]) THEN invalid_range
        ELSE LET start == IF h[1] # << >> THEN int(h[1]) ELSE 0
                 end == IF h[2] # << >> THEN int(h[2]) ELSE file_size - 1
             IN  IF start > end \/ start < 0 \/ end > file_size - 1
                 THEN invalid_range
                 ELSE [kind |-> "return", start |-> start, end |-> end]

\* one call of _get_range_header
GetRangeHeader ==
    /\ pure.pc = "call"
    /\ pure' = [pure EXCEPT !.pc = "done",
                            !.result = get_range_header(pure.header, pure.file_size)]
    /\ UNCHANGED <<client, built, raised, runVars, fs, clock, jobs, result_lines, nruns,
                   ghostVars, nSuccess, callLog, concVars>>

InitHeader ==
    /\ NoObject /\ NoRun /\ NoWriters
    /\ \E header \in Headers, file_size \in 0..MaxFileSize :
          pure = [op |-> "_get_range_header", pc |-> "call", header |-> header,
                  file_size |-> file_size, result |-> NoApplication]

NextHeader == GetRangeHeader

HeaderSpec == InitHeader /\ [][NextHeader]_vars

\* C25 (as claimed): for every header and file size _get_range_header
\* returns (start, end) with 0 <= start <= end <= S - 1 or raises the 416
\* error, and nothing else.
C25_RangeOr416 ==
    pure.pc = "done" =>
        \/ /\ pure.result.kind = "return"
           /\ 0 <= pure.result.start
           /\ pure.result.start <= pure.result.end
           /\ pure.result.end <= pure.file_size - 1
        \/ pure.result = [kind |-> "HTTPException", status |-> 416]

====
